---- MODULE Spec2Model ----
(***************************************************************************)
(* The Review ORM class of lib/review.py: an identity-mapped cache         *)
(* (Review.all) over the SQLite table                                      *)
(*   reviews(id INTEGER PRIMARY KEY, year, summary, employee_id).          *)
(* Every method is an operator from a program state to a result            *)
(* [st, ret, err]; every action applies one method to the current state.   *)
(***************************************************************************)
EXTENDS Integers, Sequences, FiniteSets, TLC

VARIABLES
    employees,      \* ids of the rows of the employees table
    tableExists,    \* the reviews table exists
    rows,           \* the reviews table: rowid -> [year, summary, employee_id]
    all,            \* Review.all: id -> instance
    objs,           \* the Review instances built so far, by handle 1..Len(objs)
    inserted,       \* per instance: inserted and not deleted since (history)
    off,            \* the calls made so far that leave the lifecycle (history)
    given,          \* how many calls so far took an id or a row from the caller
    last            \* the last call: operation, id involved, outcome

vars == <<employees, tableExists, rows, all, objs, inserted, off, given, last>>

(***************************************************************************)
(* Bounds of the model.                                                    *)
(***************************************************************************)
MaxObj == 2         \* instances that are ever constructed
MaxId == 2          \* largest rowid the table hands out
MaxGiven == 1       \* calls in which the caller supplies an id or a row

(***************************************************************************)
(* Python values: None, integers and strings (a string is a sequence of    *)
(* characters, so that str.strip() is computed).                           *)
(***************************************************************************)
PyNone == [t |-> "none", i |-> 0, s |-> <<>>]
PyInt(n) == [t |-> "int", i |-> n, s |-> <<>>]
PyStr(x) == [t |-> "str", i |-> 0, s |-> x]

RECURSIVE lstrip(_)
lstrip(x) == IF x # <<>> /\ Head(x) = " " THEN lstrip(Tail(x)) ELSE x

RECURSIVE rstrip(_)
rstrip(x) ==
    IF x # <<>> /\ x[Len(x)] = " " THEN rstrip(SubSeq(x, 1, Len(x) - 1)) ELSE x

strip(x) == rstrip(lstrip(x))

MinYear == 2000

(***************************************************************************)
(* Program states and results of calls.                                    *)
(***************************************************************************)
Cur ==
    [employees |-> employees, tableExists |-> tableExists, rows |-> rows,
     all |-> all, objs |-> objs]

Return(s, r) == [st |-> s, ret |-> r, err |-> "ok"]
Raise(s, e) == [st |-> s, ret |-> <<>>, err |-> e]

NoSuchTable == "OperationalError: no such table: reviews"

Without(f, k) == [j \in DOMAIN f \ {k} |-> f[j]]
Put(f, k, v) == [j \in DOMAIN f \cup {k} |-> IF j = k THEN v ELSE f[j]]

SetMax(S) == CHOOSE m \in S : \A n \in S : n <= m

\* the rowid SQLite gives a row inserted without one into a table whose
\* primary key is INTEGER PRIMARY KEY (no AUTOINCREMENT): one more than the
\* largest rowid in the table, 1 in an empty table
lastrowid(table) == IF DOMAIN table = {} THEN 1 ELSE SetMax(DOMAIN table) + 1

(***************************************************************************)
(* Table helpers.                                                          *)
(***************************************************************************)
\* create_table creating the table anew when it exists
create_table_anew(s) ==
    Return([s EXCEPT !.tableExists = TRUE, !.rows = <<>>], <<>>)

create_table(s) ==
    IF s.tableExists
    THEN Return(s, <<>>)
    ELSE Return([s EXCEPT !.tableExists = TRUE, !.rows = <<>>], <<>>)

\* drop_table leaving the cache as it is
drop_table_keeps_cache(s) ==
    Return([s EXCEPT !.tableExists = FALSE, !.rows = <<>>], <<>>)

drop_table(s) ==
    Return([s EXCEPT !.tableExists = FALSE, !.rows = <<>>, !.all = <<>>], <<>>)

(***************************************************************************)
(* Properties and validation.                                              *)
(***************************************************************************)
id_setter(s, o, value) ==
    IF value.t # "none" /\ value.t # "int"
    THEN Raise(s, "ValueError: id must be an integer or None")
    ELSE Return([s EXCEPT !.objs[o].id = value], <<>>)

\* year_setter without its lower bound
year_setter_unbounded(s, o, value) ==
    IF value.t # "int"
    THEN Raise(s, "ValueError: year must be an integer")
    ELSE Return([s EXCEPT !.objs[o].year = value], <<>>)

\* year_setter storing the value before it checks the lower bound
year_setter_store_first(s, o, value) ==
    IF value.t # "int"
    THEN Raise(s, "ValueError: year must be an integer")
    ELSE IF value.i < MinYear
    THEN Raise([s EXCEPT !.objs[o].year = value], "ValueError: year must be >= 2000")
    ELSE Return([s EXCEPT !.objs[o].year = value], <<>>)

year_setter(s, o, value) ==
    IF value.t # "int"
    THEN Raise(s, "ValueError: year must be an integer")
    ELSE IF value.i < MinYear
    THEN Raise(s, "ValueError: year must be >= 2000")
    ELSE Return([s EXCEPT !.objs[o].year = value], <<>>)

summary_setter(s, o, value) ==
    IF value.t # "str" \/ strip(value.s) = <<>>
    THEN Raise(s, "ValueError: summary must be a non-empty string")
    ELSE Return([s EXCEPT !.objs[o].summary = value], <<>>)

\* employee_id_setter without the lookup in the employees table
employee_id_setter_unchecked(s, o, value) ==
    IF value.t # "int"
    THEN Raise(s, "ValueError: employee_id must be an integer")
    ELSE Return([s EXCEPT !.objs[o].employee_id = value], <<>>)

employee_id_setter(s, o, value) ==
    IF value.t # "int"
    THEN Raise(s, "ValueError: employee_id must be an integer")
    ELSE IF value.i \notin s.employees
    THEN Raise(s, "ValueError: employee_id must reference a persisted Employee")
    ELSE Return([s EXCEPT !.objs[o].employee_id = value], <<>>)

\* Review(year, summary, employee_id, id): the new instance is the next
\* handle; when a setter raises, the half-built instance is never seen
Review_init(s, year, summary, employee_id, id) ==
    LET o == Len(s.objs) + 1
        blank == [id |-> PyNone, year |-> PyNone, summary |-> PyNone,
                  employee_id |-> PyNone]
        r0 == Return([s EXCEPT !.objs = Append(@, blank)], <<>>)
        r1 == id_setter(r0.st, o, id)
        r2 == IF r1.err = "ok" THEN year_setter(r1.st, o, year) ELSE r1
        r3 == IF r2.err = "ok" THEN summary_setter(r2.st, o, summary) ELSE r2
        r4 == IF r3.err = "ok" THEN employee_id_setter(r3.st, o, employee_id) ELSE r3
    IN  IF r4.err = "ok" THEN Return(r4.st, <<o>>) ELSE Raise(s, r4.err)

(***************************************************************************)
(* ORM methods.                                                            *)
(***************************************************************************)
\* save leaving the instance out of the cache
save_uncached(s, o) ==
    IF s.objs[o].id # PyNone
    THEN Return(s, <<o>>)
    ELSE IF ~s.tableExists
    THEN Raise(s, NoSuchTable)
    ELSE LET k == lastrowid(s.rows)
             row == [year |-> s.objs[o].year, summary |-> s.objs[o].summary,
                     employee_id |-> s.objs[o].employee_id]
         IN  Return([s EXCEPT !.rows = Put(@, k, row),
                              !.objs[o].id = PyInt(k)], <<o>>)

\* save binding employee_id where year belongs, and year where employee_id
save_swapped(s, o) ==
    IF s.objs[o].id # PyNone
    THEN Return(s, <<o>>)
    ELSE IF ~s.tableExists
    THEN Raise(s, NoSuchTable)
    ELSE LET k == lastrowid(s.rows)
             row == [year |-> s.objs[o].employee_id, summary |-> s.objs[o].summary,
                     employee_id |-> s.objs[o].year]
         IN  Return([s EXCEPT !.rows = Put(@, k, row),
                              !.objs[o].id = PyInt(k),
                              !.all = Put(@, k, o)], <<o>>)

\* save writing the row of an instance that already has an id (an upsert)
save_upsert(s, o) ==
    IF ~s.tableExists
    THEN Raise(s, NoSuchTable)
    ELSE LET k == IF s.objs[o].id # PyNone THEN s.objs[o].id.i ELSE lastrowid(s.rows)
             row == [year |-> s.objs[o].year, summary |-> s.objs[o].summary,
                     employee_id |-> s.objs[o].employee_id]
         IN  Return([s EXCEPT !.rows = Put(@, k, row),
                              !.objs[o].id = PyInt(k),
                              !.all = Put(@, k, o)], <<o>>)

save(s, o) ==
    IF s.objs[o].id # PyNone
    THEN Return(s, <<o>>)
    ELSE IF ~s.tableExists
    THEN Raise(s, NoSuchTable)
    ELSE LET k == lastrowid(s.rows)
             row == [year |-> s.objs[o].year, summary |-> s.objs[o].summary,
                     employee_id |-> s.objs[o].employee_id]
         IN  Return([s EXCEPT !.rows = Put(@, k, row),
                              !.objs[o].id = PyInt(k),
                              !.all = Put(@, k, o)], <<o>>)

create(s, year, summary, employee_id) ==
    LET r == Review_init(s, year, summary, employee_id, PyNone)
        w == save(r.st, r.ret[1])
    IN  IF r.err # "ok" THEN r
        ELSE IF w.err # "ok" THEN Raise(s, w.err)
        ELSE w

\* instance_from_db building the instance of an uncached row without its id
instance_from_db_without_id(s, row) ==
    LET rid == row[1].i
    IN  IF rid \in DOMAIN s.all
        THEN LET review == s.all[rid]
             IN  Return([s EXCEPT !.objs[review].year = row[2],
                                  !.objs[review].summary = row[3],
                                  !.objs[review].employee_id = row[4]],
                        <<review>>)
        ELSE LET r == Review_init(s, row[2], row[3], row[4], PyNone)
             IN  IF r.err = "ok"
                 THEN Return([r.st EXCEPT !.all = Put(@, rid, r.ret[1])], r.ret)
                 ELSE r

\* instance_from_db returning the cached instance without refreshing it
instance_from_db_stale(s, row) ==
    LET rid == row[1].i
    IN  IF rid \in DOMAIN s.all
        THEN Return(s, <<s.all[rid]>>)
        ELSE LET r == Review_init(s, row[2], row[3], row[4], row[1])
             IN  IF r.err = "ok"
                 THEN Return([r.st EXCEPT !.all = Put(@, rid, r.ret[1])], r.ret)
                 ELSE r

\* instance_from_db building a new instance whether or not one is cached
instance_from_db_duplicate(s, row) ==
    LET r == Review_init(s, row[2], row[3], row[4], row[1])
    IN  IF r.err = "ok"
        THEN Return([r.st EXCEPT !.all = Put(@, row[1].i, r.ret[1])], r.ret)
        ELSE r

\* row = <<rid, year, summary, employee_id>>
instance_from_db(s, row) ==
    LET rid == row[1].i
    IN  IF rid \in DOMAIN s.all
        THEN LET review == s.all[rid]
             IN  Return([s EXCEPT !.objs[review].year = row[2],
                                  !.objs[review].summary = row[3],
                                  !.objs[review].employee_id = row[4]],
                        <<review>>)
        ELSE LET r == Review_init(s, row[2], row[3], row[4], row[1])
             IN  IF r.err = "ok"
                 THEN Return([r.st EXCEPT !.all = Put(@, rid, r.ret[1])], r.ret)
                 ELSE r

RowOf(s, k) ==
    <<PyInt(k), s.rows[k].year, s.rows[k].summary, s.rows[k].employee_id>>

find_by_id(s, id) ==
    IF ~s.tableExists
    THEN Raise(s, NoSuchTable)
    ELSE IF id.t = "int" /\ id.i \in DOMAIN s.rows
    THEN instance_from_db(s, RowOf(s, id.i))
    ELSE Return(s, <<>>)

\* update taking the instance out of the cache, as delete does
update_evicting(s, o) ==
    IF s.objs[o].id = PyNone
    THEN Raise(s, "ValueError: cannot update a Review without an id")
    ELSE IF ~s.tableExists
    THEN Raise(s, NoSuchTable)
    ELSE LET k == s.objs[o].id.i
             row == [year |-> s.objs[o].year, summary |-> s.objs[o].summary,
                     employee_id |-> s.objs[o].employee_id]
         IN  Return([s EXCEPT !.rows = IF k \in DOMAIN @ THEN Put(@, k, row) ELSE @,
                              !.all = Without(@, k)], <<>>)

\* update returning silently when the instance has no id, as delete does
update_silent(s, o) ==
    IF s.objs[o].id = PyNone
    THEN Return(s, <<>>)
    ELSE IF ~s.tableExists
    THEN Raise(s, NoSuchTable)
    ELSE LET k == s.objs[o].id.i
             row == [year |-> s.objs[o].year, summary |-> s.objs[o].summary,
                     employee_id |-> s.objs[o].employee_id]
         IN  Return([s EXCEPT !.rows = IF k \in DOMAIN @ THEN Put(@, k, row) ELSE @,
                              !.all = Put(@, k, o)], <<>>)

\* update writing the year and the employee_id but not the summary
update_without_summary(s, o) ==
    IF s.objs[o].id = PyNone
    THEN Raise(s, "ValueError: cannot update a Review without an id")
    ELSE IF ~s.tableExists
    THEN Raise(s, NoSuchTable)
    ELSE LET k == s.objs[o].id.i
             row == [year |-> s.objs[o].year, summary |-> s.rows[k].summary,
                     employee_id |-> s.objs[o].employee_id]
         IN  Return([s EXCEPT !.rows = IF k \in DOMAIN @ THEN Put(@, k, row) ELSE @,
                              !.all = Put(@, k, o)], <<>>)

update(s, o) ==
    IF s.objs[o].id = PyNone
    THEN Raise(s, "ValueError: cannot update a Review without an id")
    ELSE IF ~s.tableExists
    THEN Raise(s, NoSuchTable)
    ELSE LET k == s.objs[o].id.i
             row == [year |-> s.objs[o].year, summary |-> s.objs[o].summary,
                     employee_id |-> s.objs[o].employee_id]
         IN  Return([s EXCEPT !.rows = IF k \in DOMAIN @ THEN Put(@, k, row) ELSE @,
                              !.all = Put(@, k, o)], <<>>)

\* delete clearing the whole cache, as drop_table does
delete_clearing(s, o) ==
    IF s.objs[o].id = PyNone
    THEN Return(s, <<>>)
    ELSE IF ~s.tableExists
    THEN Raise(s, NoSuchTable)
    ELSE LET k == s.objs[o].id.i
         IN  Return([s EXCEPT !.rows = Without(@, k),
                              !.all = <<>>,
                              !.objs[o].id = PyNone], <<>>)

\* delete raising when the instance has no id, as update does
delete_strict(s, o) ==
    IF s.objs[o].id = PyNone
    THEN Raise(s, "ValueError: cannot delete a Review without an id")
    ELSE IF ~s.tableExists
    THEN Raise(s, NoSuchTable)
    ELSE LET k == s.objs[o].id.i
         IN  Return([s EXCEPT !.rows = Without(@, k),
                              !.all = Without(@, k),
                              !.objs[o].id = PyNone], <<>>)

\* delete leaving the instance in the cache
delete_cached(s, o) ==
    IF s.objs[o].id = PyNone
    THEN Return(s, <<>>)
    ELSE IF ~s.tableExists
    THEN Raise(s, NoSuchTable)
    ELSE LET k == s.objs[o].id.i
         IN  Return([s EXCEPT !.rows = Without(@, k),
                              !.objs[o].id = PyNone], <<>>)

\* delete leaving the instance its id
delete_keeps_id(s, o) ==
    IF s.objs[o].id = PyNone
    THEN Return(s, <<>>)
    ELSE IF ~s.tableExists
    THEN Raise(s, NoSuchTable)
    ELSE LET k == s.objs[o].id.i
         IN  Return([s EXCEPT !.rows = Without(@, k),
                              !.all = Without(@, k)], <<>>)

delete(s, o) ==
    IF s.objs[o].id = PyNone
    THEN Return(s, <<>>)
    ELSE IF ~s.tableExists
    THEN Raise(s, NoSuchTable)
    ELSE LET k == s.objs[o].id.i
         IN  Return([s EXCEPT !.rows = Without(@, k),
                              !.all = Without(@, k),
                              !.objs[o].id = PyNone], <<>>)

\* the rows are scanned in rowid order; a row whose hydration raises ends
\* the call, and the instances refreshed before it stay refreshed
RECURSIVE get_all_from(_, _, _)
get_all_from(s, ids, acc) ==
    IF ids = {}
    THEN Return(s, acc)
    ELSE LET k == CHOOSE m \in ids : \A n \in ids : m <= n
             r == instance_from_db(s, RowOf(s, k))
         IN  IF r.err = "ok"
             THEN get_all_from(r.st, ids \ {k}, acc \o r.ret)
             ELSE r

get_all(s) ==
    IF ~s.tableExists
    THEN Raise(s, NoSuchTable)
    ELSE get_all_from(s, DOMAIN s.rows, <<>>)

(***************************************************************************)
(* The values the callers pass.                                            *)
(***************************************************************************)
NotAnInt == PyStr(<<"x">>)
ValidYears == {PyInt(2000), PyInt(2001)}
BadYears == {PyInt(1999), NotAnInt}
ValidSummaries == {PyStr(<<" ", "a", " ">>)}
BadSummaries == {PyStr(<<>>), PyStr(<<" ">>), PyInt(7)}
EmployeeInputs == {PyInt(1), PyInt(2), NotAnInt}
IdInputs == {PyNone, NotAnInt} \cup {PyInt(k) : k \in 1..MaxId}

Args(id, year, summary, employee_id) ==
    [id |-> id, year |-> year, summary |-> summary, employee_id |-> employee_id]

\* constructor arguments: every valid combination, and each field wrong in
\* turn with the others valid
UnsavedArgs ==
    {Args(PyNone, y, m, e) : y \in ValidYears, m \in ValidSummaries, e \in EmployeeInputs}
    \cup {Args(PyNone, y, PyStr(<<" ", "a", " ">>), PyInt(1)) : y \in BadYears}
    \cup {Args(PyNone, PyInt(2000), m, PyInt(1)) : m \in BadSummaries}

WithIdArgs ==
    {Args(id, PyInt(2000), PyStr(<<" ", "a", " ">>), PyInt(1)) : id \in IdInputs \ {PyNone}}

\* rows handed to instance_from_db by a caller: rows the setters would
\* accept, and rows whose year they would refuse
ValidRows ==
    {<<PyInt(k), PyInt(2001), PyStr(<<" ", "a", " ">>), PyInt(1)>> : k \in 1..MaxId}
InvalidRows ==
    {<<PyInt(k), PyInt(1999), PyStr(<<" ", "a", " ">>), PyInt(1)>> : k \in 1..MaxId}

Objs == 1..Len(objs)

(***************************************************************************)
(* History kept beside the program state.  inserted[o] tells whether       *)
(* instance o has been inserted by save/create and not deleted since.      *)
(* off holds "drop_table" once drop_table has been called, "id" once a     *)
(* caller has given an instance its id (as a constructor argument, as      *)
(* instance_from_db does for a row that is not cached, or by assignment),  *)
(* "row" once instance_from_db has been handed a row the setters would      *)
(* refuse, "cached_id" once a caller has assigned to the id of an instance *)
(* that is in the cache, and "unregistered" once update or delete has been *)
(* called on an instance that has an id and is not the instance the cache  *)
(* holds under that id (an instance orphaned by drop_table, for one).      *)
(* last describes the last call: its operation, the id it was about (the   *)
(* id argument, or the receiver's id before save, update and delete), the  *)
(* instances returned, the error raised, and the parts of the program      *)
(* state the call changed.                                                 *)
(***************************************************************************)
\* the cache of state s holds the instance o under o's id
Registered(s, o) ==
    /\ s.objs[o].id # PyNone
    /\ s.objs[o].id.i \in DOMAIN s.all
    /\ s.all[s.objs[o].id.i] = o

Cached(s) == {s.all[k] : k \in DOMAIN s.all}

Grown(g, r) == g \o [j \in 1..(Len(r.st.objs) - Len(g)) |-> FALSE]

Changed(s, u) ==
    {c \in {"tableExists", "rows", "all", "objs"} : s[c] # u[c]}

Commit(r, op, id) ==
    /\ employees' = r.st.employees
    /\ tableExists' = r.st.tableExists
    /\ rows' = r.st.rows
    /\ all' = r.st.all
    /\ objs' = r.st.objs
    /\ last' = [op |-> op, id |-> id, ret |-> r.ret, err |-> r.err,
                changed |-> Changed(Cur, r.st)]

Init ==
    /\ employees = {1}
    /\ tableExists = FALSE
    /\ rows = <<>>
    /\ all = <<>>
    /\ objs = <<>>
    /\ inserted = <<>>
    /\ off = {}
    /\ given = 0
    /\ last = [op |-> "start", id |-> PyNone, ret |-> <<>>, err |-> "ok",
               changed |-> {}]

(***************************************************************************)
(* One action per public operation.                                        *)
(***************************************************************************)
CreateTable ==
    /\ Commit(create_table(Cur), "create_table", PyNone)
    /\ UNCHANGED <<inserted, off, given>>

DropTable ==
    /\ Commit(drop_table(Cur), "drop_table", PyNone)
    /\ off' = off \cup {"drop_table"}
    /\ UNCHANGED <<inserted, given>>

New ==
    \E a \in UnsavedArgs :
        LET r == Review_init(Cur, a.year, a.summary, a.employee_id, a.id)
        IN  /\ Len(objs) < MaxObj
            /\ Commit(r, "Review", a.id)
            /\ inserted' = Grown(inserted, r)
            /\ UNCHANGED <<off, given>>

NewWithId ==
    \E a \in WithIdArgs :
        LET r == Review_init(Cur, a.year, a.summary, a.employee_id, a.id)
        IN  /\ Len(objs) < MaxObj
            /\ given < MaxGiven
            /\ Commit(r, "Review", a.id)
            /\ inserted' = Grown(inserted, r)
            /\ off' = IF r.err = "ok" THEN off \cup {"id"} ELSE off
            /\ given' = given + 1

SetId ==
    \E o \in Objs, v \in IdInputs :
        /\ given < MaxGiven
        /\ Commit(id_setter(Cur, o, v), "id", v)
        /\ off' = IF id_setter(Cur, o, v).err # "ok" THEN off
                  ELSE IF o \in Cached(Cur) THEN off \cup {"id", "cached_id"}
                  ELSE off \cup {"id"}
        /\ given' = given + 1
        /\ UNCHANGED inserted

SetYear ==
    \E o \in Objs, v \in ValidYears \cup BadYears :
        /\ Commit(year_setter(Cur, o, v), "year", PyNone)
        /\ UNCHANGED <<inserted, off, given>>

SetSummary ==
    \E o \in Objs, v \in ValidSummaries \cup BadSummaries :
        /\ Commit(summary_setter(Cur, o, v), "summary", PyNone)
        /\ UNCHANGED <<inserted, off, given>>

SetEmployeeId ==
    \E o \in Objs, v \in EmployeeInputs :
        /\ Commit(employee_id_setter(Cur, o, v), "employee_id", PyNone)
        /\ UNCHANGED <<inserted, off, given>>

Save ==
    \E o \in Objs :
        LET r == save(Cur, o)
        IN  /\ r.err = "ok" => r.st.objs[o].id.i <= MaxId
            /\ Commit(r, "save", objs[o].id)
            /\ inserted' = IF r.err = "ok" /\ objs[o].id = PyNone
                           THEN [inserted EXCEPT ![o] = TRUE] ELSE inserted
            /\ UNCHANGED <<off, given>>

Create ==
    \E a \in UnsavedArgs :
        LET r == create(Cur, a.year, a.summary, a.employee_id)
        IN  /\ Len(objs) < MaxObj
            /\ r.err = "ok" => r.st.objs[r.ret[1]].id.i <= MaxId
            /\ Commit(r, "create", PyNone)
            /\ inserted' = inserted \o [j \in 1..(Len(r.st.objs) - Len(objs)) |-> TRUE]
            /\ UNCHANGED <<off, given>>

InstanceFromDb ==
    \E row \in ValidRows :
        LET r == instance_from_db(Cur, row)
        IN  /\ Len(r.st.objs) <= MaxObj
            /\ given < MaxGiven
            /\ Commit(r, "instance_from_db", row[1])
            /\ inserted' = Grown(inserted, r)
            /\ off' = IF Len(r.st.objs) > Len(objs) THEN off \cup {"id"} ELSE off
            /\ given' = given + 1

InstanceFromDbInvalid ==
    \E row \in InvalidRows :
        LET r == instance_from_db(Cur, row)
        IN  /\ Len(r.st.objs) <= MaxObj
            /\ given < MaxGiven
            /\ Commit(r, "instance_from_db", row[1])
            /\ inserted' = Grown(inserted, r)
            /\ off' = off \cup {"row"}
            /\ given' = given + 1

FindById ==
    \E id \in IdInputs \ {PyNone} :
        LET r == find_by_id(Cur, id)
        IN  /\ Len(r.st.objs) <= MaxObj
            /\ Commit(r, "find_by_id", id)
            /\ inserted' = Grown(inserted, r)
            /\ UNCHANGED <<off, given>>

GetAll ==
    LET r == get_all(Cur)
    IN  /\ Len(r.st.objs) <= MaxObj
        /\ Commit(r, "get_all", PyNone)
        /\ inserted' = Grown(inserted, r)
        /\ UNCHANGED <<off, given>>

Update ==
    \E o \in Objs :
        /\ Commit(update(Cur, o), "update", objs[o].id)
        /\ off' = IF objs[o].id # PyNone /\ ~Registered(Cur, o)
                  THEN off \cup {"unregistered"} ELSE off
        /\ UNCHANGED <<inserted, given>>

Delete ==
    \E o \in Objs :
        LET r == delete(Cur, o)
        IN  /\ Commit(r, "delete", objs[o].id)
            /\ inserted' = IF r.err = "ok" /\ objs[o].id # PyNone
                           THEN [inserted EXCEPT ![o] = FALSE] ELSE inserted
            /\ off' = IF objs[o].id # PyNone /\ ~Registered(Cur, o)
                      THEN off \cup {"unregistered"} ELSE off
            /\ UNCHANGED given

Next ==
    \/ CreateTable
    \/ DropTable
    \/ New
    \/ NewWithId
    \/ SetId
    \/ SetYear
    \/ SetSummary
    \/ SetEmployeeId
    \/ Save
    \/ Create
    \/ InstanceFromDb
    \/ InstanceFromDbInvalid
    \/ FindById
    \/ GetAll
    \/ Update
    \/ Delete

Spec == Init /\ [][Next]_vars

(***************************************************************************)
(* Properties.                                                             *)
(***************************************************************************)
Ids == 1..MaxId

ValidArgs(a) ==
    /\ a.year.t = "int" /\ a.year.i >= 2000
    /\ a.summary.t = "str" /\ strip(a.summary.s) # <<>>
    /\ a.employee_id.t = "int" /\ a.employee_id.i \in employees

\* the instance o of state s holds the values of the row k of s
SameAsRow(s, o, k) ==
    /\ s.objs[o].year = s.rows[k].year
    /\ s.objs[o].summary = s.rows[k].summary
    /\ s.objs[o].employee_id = s.rows[k].employee_id

\* C1: in every reachable state in which the reviews table exists, create
\* with any valid (year, summary, employee_id) returns an instance whose id
\* is an integer, and find_by_id of that id, called right after, returns an
\* instance with the same id, year, summary and employee_id.
C1_CreateThenFind ==
    \A a \in UnsavedArgs :
        (ValidArgs(a) /\ tableExists) =>
            LET c == create(Cur, a.year, a.summary, a.employee_id)
                made == c.st.objs[c.ret[1]]
                f == find_by_id(c.st, made.id)
            IN  /\ c.err = "ok" /\ Len(c.ret) = 1
                /\ made.id.t = "int"
                /\ f.err = "ok" /\ Len(f.ret) = 1
                /\ f.st.objs[f.ret[1]] = made

\* create has returned a second row's instance
C1_Witness ==
    /\ last.op = "create" /\ last.err = "ok"
    /\ objs[last.ret[1]].id = PyInt(2)
    /\ find_by_id(Cur, PyInt(2)).ret = last.ret

\* C2: for an id k that is cached and has a row, two successive find_by_id
\* calls, and two successive instance_from_db calls on its row, all return
\* the instance that was cached before the calls, and after each call that
\* instance holds the values of the stored row, which the calls leave as it
\* was.
C2_IdentityAndRefresh ==
    \A k \in DOMAIN all \cap DOMAIN rows :
        LET o == all[k]
            f1 == find_by_id(Cur, PyInt(k))
            f2 == find_by_id(f1.st, PyInt(k))
            i1 == instance_from_db(Cur, RowOf(Cur, k))
            i2 == instance_from_db(i1.st, RowOf(i1.st, k))
        IN  \A r \in {f1, f2, i1, i2} :
                /\ r.err = "ok"
                /\ r.ret = <<o>>
                /\ r.st.rows = rows
                /\ SameAsRow(r.st, o, k)

\* find_by_id has returned a saved instance and overwritten its unsaved
\* values with the row's
C2_Witness ==
    /\ last.op = "find_by_id" /\ last.err = "ok" /\ last.ret # <<>>
    /\ "objs" \in last.changed
    /\ inserted[last.ret[1]]
    /\ all[last.id.i] = last.ret[1]

\* C3: delete() on a persisted instance followed by save() on the same
\* instance inserts a new row, and the instance's new id differs from the
\* id it had before the delete.
C3_NewIdAfterDelete ==
    \A o \in Objs :
        (objs[o].id # PyNone /\ objs[o].id.i \in DOMAIN rows) =>
            LET d == delete(Cur, o)
                w == save(d.st, o)
            IN  /\ d.err = "ok" /\ w.err = "ok"
                /\ DOMAIN w.st.rows # DOMAIN d.st.rows
                /\ w.st.objs[o].id # PyNone
                /\ w.st.objs[o].id # objs[o].id

\* C4 as stated: an instance's id is None if and only if the instance has
\* never been inserted by save/create or has been deleted since.
C4_IdNoneIffNotInserted ==
    \A o \in Objs : (objs[o].id = PyNone) <=> ~inserted[o]

\* C4 as amended: the same, as long as no caller has given an instance its
\* id (as a constructor argument, through instance_from_db for an id that
\* is not cached, or by assigning to id).
C4_IdNoneIffNotInsertedOwnIds ==
    "id" \notin off => \A o \in Objs : (objs[o].id = PyNone) <=> ~inserted[o]

\* one instance has lost its id to delete while another keeps the id save
\* gave it, the table having been dropped in between
C4_Witness ==
    /\ "id" \notin off
    /\ last.op = "delete" /\ last.id # PyNone /\ last.err = "ok"
    /\ \E o \in Objs : objs[o].id = PyNone /\ ~inserted[o]
    /\ \E o \in Objs : objs[o].id # PyNone /\ inserted[o] /\ objs[o].id.i \notin DOMAIN rows

\* C5 as stated: whenever find_by_id(k) returns, it returns the instance
\* that carries id k (as long as no caller has given an id, every instance
\* that carries an id was handed to the caller with that id by save or
\* create).
C5_OneInstancePerId ==
    "id" \notin off =>
        \A o \in Objs :
            objs[o].id # PyNone =>
                LET f == find_by_id(Cur, objs[o].id)
                IN  f.err = "ok" => f.ret = <<o>>

\* C5 as amended: as long as drop_table is not called and no caller gives
\* an id, find_by_id(k) returns the one instance that carries id k, and no
\* two instances carry the same id.
C5_OneInstancePerIdLifecycle ==
    ("drop_table" \notin off /\ "id" \notin off) =>
        /\ \A o \in Objs :
               objs[o].id # PyNone => find_by_id(Cur, objs[o].id).ret = <<o>>
        /\ \A o1, o2 \in Objs :
               (objs[o1].id # PyNone /\ objs[o1].id = objs[o2].id) => o1 = o2

\* find_by_id has returned one of two persisted instances
C5_Witness ==
    /\ "drop_table" \notin off /\ "id" \notin off
    /\ last.op = "find_by_id" /\ last.ret # <<>>
    /\ Len(objs) = 2
    /\ \A o \in Objs : objs[o].id # PyNone

ValidFields(x) ==
    /\ x.year.t = "int" /\ x.year.i >= 2000
    /\ x.summary.t = "str" /\ strip(x.summary.s) # <<>>
    /\ x.employee_id.t = "int"

\* C6 as stated: every instance has an integer year >= 2000, a summary that
\* is a string and non-empty after trimming, and an integer employee_id.
C6_FieldsValid == \A o \in Objs : ValidFields(objs[o])

\* C6 as amended: the same, as long as the rows handed to instance_from_db
\* hold values the setters accept (as the rows save and update write do).
C6_FieldsValidTrustedRows ==
    "row" \notin off => \A o \in Objs : ValidFields(objs[o])

\* instance_from_db has refreshed a saved instance from a caller's row
C6_Witness ==
    /\ "row" \notin off
    /\ last.op = "instance_from_db" /\ last.err = "ok"
    /\ "objs" \in last.changed
    /\ inserted[last.ret[1]]

\* C7: save() on an instance whose id is not None returns that instance and
\* changes nothing: not the table, not the cache, not the instance.
C7_SaveNoOp ==
    \A o \in Objs : objs[o].id # PyNone => save(Cur, o) = Return(Cur, <<o>>)

\* save has returned an instance that has an id, differs from its row and
\* is not the instance cached under its id
C7_Witness ==
    /\ last.op = "save" /\ last.id # PyNone /\ last.err = "ok"
    /\ last.id.i \in DOMAIN rows
    /\ rows[last.id.i].year # objs[last.ret[1]].year
    /\ last.id.i \in DOMAIN all
    /\ all[last.id.i] # last.ret[1]

\* C8: update() on an instance whose id is None raises, and changes
\* nothing.
C8_UpdateWithoutId ==
    \A o \in Objs :
        objs[o].id = PyNone =>
            /\ update(Cur, o).err # "ok"
            /\ update(Cur, o).st = Cur

\* update has raised on an instance without an id while the table had rows
C8_Witness ==
    /\ last.op = "update" /\ last.id = PyNone /\ last.err # "ok"
    /\ DOMAIN rows # {}

\* C9: delete() on an instance whose id is None returns without error and
\* changes nothing.
C9_DeleteWithoutId ==
    \A o \in Objs : objs[o].id = PyNone => delete(Cur, o) = Return(Cur, <<>>)

\* delete has returned on an instance without an id while the table had
\* rows and the cache entries
C9_Witness ==
    /\ last.op = "delete" /\ last.id = PyNone /\ last.err = "ok"
    /\ DOMAIN rows # {} /\ DOMAIN all # {}

\* C10: after delete() on an instance with id k that has a row, the table
\* has no row k, the cache has no key k and the instance's id is None; and
\* in every state in which the table has no row k, find_by_id(k) returns
\* None and changes nothing.
C10_DeleteRemoves ==
    /\ \A o \in Objs :
           (objs[o].id # PyNone /\ objs[o].id.i \in DOMAIN rows) =>
               LET k == objs[o].id.i
                   d == delete(Cur, o)
               IN  /\ d.err = "ok"
                   /\ k \notin DOMAIN d.st.rows
                   /\ k \notin DOMAIN d.st.all
                   /\ d.st.objs[o].id = PyNone
                   /\ find_by_id(d.st, PyInt(k)) = Return(d.st, <<>>)
    /\ \A k \in Ids :
           (tableExists /\ k \notin DOMAIN rows) =>
               find_by_id(Cur, PyInt(k)) = Return(Cur, <<>>)

\* delete has removed a row, and the other row is still there
C10_Witness ==
    /\ last.op = "delete" /\ last.id # PyNone /\ last.err = "ok"
    /\ "rows" \in last.changed
    /\ DOMAIN rows # {}
    /\ find_by_id(Cur, last.id).ret = <<>>

\* the values C11 assigns: a year and a summary, either of them possibly
\* left as it is (Keep)
Keep == [t |-> "keep", i |-> 0, s |-> <<>>]

NewSummaries == ValidSummaries \cup {PyStr(<<"b">>)}

Assigned(s, o, y, m) ==
    LET r1 == IF y = Keep THEN Return(s, <<>>) ELSE year_setter(s, o, y)
    IN  IF r1.err # "ok" \/ m = Keep THEN r1 ELSE summary_setter(r1.st, o, m)

\* C11: for an instance with id k whose row k is in the table, assigning a
\* valid year and/or a valid summary, then update(), then find_by_id(k)
\* gives an instance whose year and summary are the values assigned (the
\* values it had, for a field not assigned), and the row k holds them.
C11_UpdateThenFind ==
    \A o \in Objs :
        (objs[o].id # PyNone /\ tableExists /\ objs[o].id.i \in DOMAIN rows) =>
            \A y \in ValidYears \cup {Keep}, m \in NewSummaries \cup {Keep} :
                LET k == objs[o].id.i
                    a == Assigned(Cur, o, y, m)
                    u == update(a.st, o)
                    f == find_by_id(u.st, PyInt(k))
                    year == IF y = Keep THEN objs[o].year ELSE y
                    summary == IF m = Keep THEN objs[o].summary ELSE m
                IN  /\ a.err = "ok" /\ u.err = "ok" /\ f.err = "ok"
                    /\ Len(f.ret) = 1
                    /\ f.st.objs[f.ret[1]].id = PyInt(k)
                    /\ f.st.objs[f.ret[1]].year = year
                    /\ f.st.objs[f.ret[1]].summary = summary
                    /\ f.st.rows[k].year = year
                    /\ f.st.rows[k].summary = summary

\* update has rewritten a row with values assigned after the insert, and
\* find_by_id of its id gives an instance holding the row's values
C11_Witness ==
    /\ last.op = "update" /\ last.err = "ok"
    /\ "rows" \in last.changed
    /\ LET f == find_by_id(Cur, last.id)
       IN  /\ Len(f.ret) = 1
           /\ SameAsRow(f.st, f.ret[1], last.id.i)
           /\ f.st.objs = objs

YearErrors == {"ValueError: year must be an integer", "ValueError: year must be >= 2000"}

\* C12: for a year that is not an integer or is < 2000, Review(...) and
\* create(...) raise a year validation error and leave the table, the cache
\* and every instance as they were, and assigning it to the year of an
\* instance raises the same error and leaves the whole state, the
\* instance's year included, as it was.
C12_BadYearRefused ==
    \A y \in BadYears :
        /\ \A m \in ValidSummaries, e \in {PyInt(j) : j \in employees},
              id \in {PyNone} \cup {PyInt(k) : k \in Ids} :
               LET r == Review_init(Cur, y, m, e, id)
                   c == create(Cur, y, m, e)
               IN  /\ r.err \in YearErrors /\ r.st = Cur
                   /\ c.err \in YearErrors /\ c.st = Cur
        /\ \A o \in Objs :
               LET r == year_setter(Cur, o, y)
               IN  /\ r.err \in YearErrors /\ r.st = Cur
                   /\ r.st.objs[o].year = objs[o].year

\* the assignment of a refused year to a saved instance has raised, and
\* the instance still holds the year of its row
C12_Witness ==
    /\ last.op = "year" /\ last.err \in YearErrors /\ last.changed = {}
    /\ \E o \in Objs :
           /\ objs[o].id # PyNone /\ objs[o].id.i \in DOMAIN rows
           /\ objs[o].year = rows[objs[o].id.i].year

NoSuchEmployee == "ValueError: employee_id must reference a persisted Employee"

\* C13: for an integer employee_id that has no row in the employees table,
\* Review(...) and create(...) raise the reference error and leave the
\* table, the cache and every instance as they were, and assigning it to
\* the employee_id of an instance raises the same error and leaves the
\* whole state, the instance's employee_id included, as it was.
C13_UnknownEmployeeRefused ==
    \A e \in {v \in EmployeeInputs : v.t = "int" /\ v.i \notin employees} :
        /\ \A y \in ValidYears, m \in ValidSummaries,
              id \in {PyNone} \cup {PyInt(k) : k \in Ids} :
               LET r == Review_init(Cur, y, m, e, id)
                   c == create(Cur, y, m, e)
               IN  /\ r.err = NoSuchEmployee /\ r.st = Cur
                   /\ c.err = NoSuchEmployee /\ c.st = Cur
        /\ \A o \in Objs :
               LET r == employee_id_setter(Cur, o, e)
               IN  /\ r.err = NoSuchEmployee /\ r.st = Cur
                   /\ r.st.objs[o].employee_id = objs[o].employee_id

\* the assignment of an unknown employee to a saved instance has raised
C13_Witness ==
    /\ last.op = "employee_id" /\ last.err = NoSuchEmployee /\ last.changed = {}
    /\ \E o \in Objs :
           /\ objs[o].id # PyNone /\ objs[o].id.i \in DOMAIN rows
           /\ objs[o].employee_id = rows[objs[o].id.i].employee_id

\* C14: from any reachable state, drop_table() followed by create_table()
\* leaves a table without rows and an empty cache, and get_all() called
\* right after returns the empty list and changes nothing.
C14_DropCreateEmpty ==
    LET d == drop_table(Cur)
        c == create_table(d.st)
        g == get_all(c.st)
    IN  /\ d.err = "ok" /\ c.err = "ok"
        /\ c.st.tableExists
        /\ c.st.rows = <<>>
        /\ c.st.all = <<>>
        /\ g = Return(c.st, <<>>)

\* create_table has created the table anew after a drop_table that removed
\* the row of an instance still held
C14_Witness ==
    /\ last.op = "create_table" /\ "tableExists" \in last.changed
    /\ "drop_table" \in off
    /\ \E o \in Objs : inserted[o] /\ objs[o].id # PyNone
    /\ get_all(Cur).ret = <<>>

\* C15 as stated: a successful update() leaves the cache exactly as it
\* was before the call (on instances that got their ids from save, create,
\* find_by_id or get_all, not from a caller).
C15_UpdateKeepsCache ==
    "id" \notin off =>
        \A o \in Objs : update(Cur, o).err = "ok" => update(Cur, o).st.all = all

\* C15 as amended: a successful update() on an instance that the cache
\* holds under its id leaves the cache exactly as it was before the call.
C15_UpdateKeepsCacheRegistered ==
    \A o \in Objs :
        (Registered(Cur, o) /\ update(Cur, o).err = "ok") =>
            update(Cur, o).st.all = all

\* update has rewritten the row of one of two cached instances and left
\* the cache as it was
C15_Witness ==
    /\ last.op = "update" /\ last.err = "ok"
    /\ "rows" \in last.changed /\ "all" \notin last.changed
    /\ Cardinality(DOMAIN all) = 2
    /\ \E o \in Objs : Registered(Cur, o) /\ objs[o].id = last.id

\* C16 as stated: the cache holds every instance whose id is not None
\* under that id (no caller having given an instance its id).
C16_IdImpliesCached ==
    "id" \notin off => \A o \in Objs : objs[o].id # PyNone => Registered(Cur, o)

\* C16 as amended: the same, as long as drop_table has not been called and
\* no caller has given an instance its id.
C16_IdImpliesCachedLifecycle ==
    ("drop_table" \notin off /\ "id" \notin off) =>
        \A o \in Objs : objs[o].id # PyNone => Registered(Cur, o)

\* save has inserted the first instance built, after the second: both have
\* ids and the cache holds both
C16_Witness ==
    /\ "drop_table" \notin off /\ "id" \notin off
    /\ last.op = "save" /\ last.id = PyNone /\ last.err = "ok"
    /\ Len(objs) = 2
    /\ \A o \in Objs : Registered(Cur, o)
    /\ last.ret = <<1>> /\ objs[1].id = PyInt(2)

\* C17 as stated: no sequence of save, update, delete, find_by_id, get_all,
\* drop_table and create_table (on instances that got their ids from save)
\* leaves a key in the cache that has no row in the table.
C17_CachedHasRow ==
    "id" \notin off => \A k \in DOMAIN all : k \in DOMAIN rows

\* C17 as amended: the same, as long as update and delete are called only
\* on instances that the cache holds under their id (or that have no id),
\* not on instances orphaned by drop_table.
C17_CachedHasRowRegistered ==
    ("id" \notin off /\ "unregistered" \notin off) =>
        \A k \in DOMAIN all : k \in DOMAIN rows

\* an instance orphaned by drop_table still has the id under which the
\* table, created anew, has a row and the cache another instance
C17_Witness ==
    /\ "id" \notin off /\ "unregistered" \notin off
    /\ "drop_table" \in off
    /\ \E o \in Objs :
           /\ objs[o].id # PyNone /\ ~Registered(Cur, o)
           /\ objs[o].id.i \in DOMAIN all \cap DOMAIN rows

\* C18 as stated: the instance the cache holds under a key k has id k, and
\* no instance is held under two keys.
C18_KeyIsId ==
    /\ \A k \in DOMAIN all : objs[all[k]].id = PyInt(k)
    /\ \A j, k \in DOMAIN all : all[j] = all[k] => j = k

\* C18 as amended: the same, as long as no caller has assigned to the id of
\* an instance that is in the cache.
C18_KeyIsIdUnassigned ==
    "cached_id" \notin off =>
        /\ \A k \in DOMAIN all : objs[all[k]].id = PyInt(k)
        /\ \A j, k \in DOMAIN all : all[j] = all[k] => j = k

\* a caller has assigned an id to an instance that is not in the cache,
\* which holds another instance
C18_Witness ==
    /\ "cached_id" \notin off
    /\ last.op = "id" /\ last.err = "ok" /\ "objs" \in last.changed
    /\ DOMAIN all # {}

\* delete(o) from the current state leaves every row and every cache entry
\* other than those under o's id as they were, adds none, and leaves every
\* other instance as it was
DeleteFrame(o, d) ==
    /\ DOMAIN d.st.rows \subseteq DOMAIN rows
    /\ DOMAIN d.st.all \subseteq DOMAIN all
    /\ \A j \in DOMAIN rows : PyInt(j) # objs[o].id => j \in DOMAIN d.st.rows
    /\ \A j \in DOMAIN all : PyInt(j) # objs[o].id => j \in DOMAIN d.st.all
    /\ \A j \in DOMAIN d.st.rows : d.st.rows[j] = rows[j]
    /\ \A j \in DOMAIN d.st.all : d.st.all[j] = all[j]
    /\ \A p \in Objs \ {o} : d.st.objs[p] = objs[p]
    /\ d.st.tableExists = tableExists

\* C19 as stated: delete() on an instance removes at most the row with its
\* id, evicts no instance but that one, and leaves every other row and
\* cache entry as it was (no caller having given an instance its id).
C19_DeleteOnlyOwn ==
    "id" \notin off =>
        \A o \in Objs :
            LET d == delete(Cur, o)
            IN  d.err = "ok" =>
                    /\ DeleteFrame(o, d)
                    /\ \A j \in DOMAIN all \ DOMAIN d.st.all : all[j] = o

\* C19 as amended: delete() on an instance removes at most the row and the
\* cache entry under its id and leaves every other row and cache entry as
\* it was; it evicts no instance but that one when the cache holds that
\* instance, or nothing, under its id.
C19_DeleteOnlyOwnId ==
    \A o \in Objs :
        LET d == delete(Cur, o)
        IN  d.err = "ok" =>
                /\ DeleteFrame(o, d)
                /\ \A j \in DOMAIN all \ DOMAIN d.st.all : PyInt(j) = objs[o].id
                /\ (Registered(Cur, o) \/ objs[o].id.i \notin DOMAIN all) =>
                       \A j \in DOMAIN all \ DOMAIN d.st.all : all[j] = o

\* delete has removed the row and the cache entry of one instance and left
\* the row and the cache entry of the other
C19_Witness ==
    /\ last.op = "delete" /\ last.id # PyNone /\ last.err = "ok"
    /\ last.changed = {"rows", "all", "objs"}
    /\ \E o \in Objs : Registered(Cur, o) /\ objs[o].id.i \in DOMAIN rows
    /\ \E o \in Objs : objs[o].id = PyNone /\ ~inserted[o]

====
